---- MODULE Spec2Model ----
(***************************************************************************)
(* Server-side coordinator of the collaborative canvas:                    *)
(*   src/server/drawing-state.js  (DrawingState: history / undoneActions)  *)
(*   src/server/rooms.js          (RoomManager: per-room user lists)       *)
(*   src/server/server.js         (socket.io handlers)                     *)
(*   src/client/main.js, canvas.js (browser client: state.history)        *)
(* One step of the model is one run of one socket.io handler or client     *)
(* callback; an event loop runs them one at a time, to completion.         *)
(***************************************************************************)
EXTENDS Integers, Sequences, FiniteSets, TLC

\* ------------------------------------------------------------------ bounds
\* Number of sockets that may ever connect (socket ids are 1..NumSockets).
NumSockets == 2
\* Number of action objects the DRAW_ACTION handler may allocate in a run.
MaxActions == 3
\* Largest reading of the server clock (Date.now()).
MaxClock == 0

\* DrawingState.MAX_HISTORY_SIZE; 1000 in the source, scaled down so that
\* the eviction branch of addAction is reached.
MAX_HISTORY_SIZE == 2
\* The same field, scaled to a value that lets three actions be alive at once.
MAX_HISTORY_SIZE_DEEP == 3

Sockets == 1..NumSockets
\* const roomId = 'default' in the connection handler.
roomId == "default"
\* userColor: the source draws '#' + a random 24-bit number in hex.
Colors == {"#aaaaaa", "#bbbbbb"}

\* ------------------------------------------------------- client payloads
\* A JavaScript value sent as the `path` field: absent, a non-array truthy
\* value (a string), or an array of elements.
Point == [x |-> 0, y |-> 0]
Point2 == [x |-> 1, y |-> 1]
Junk == [junk |-> TRUE]
PathUndefined == [kind |-> "undefined", elems |-> <<>>]
PathString == [kind |-> "string", elems |-> <<>>]
PathArray(es) == [kind |-> "array", elems |-> es]

\* The `data` argument of a DRAW_ACTION event. isNull models a missing
\* payload (undefined / null).
NullData == [isNull |-> TRUE, path |-> PathUndefined, finalized |-> FALSE]
ObjData(p, f) == [isNull |-> FALSE, path |-> p, finalized |-> f]

\* Payloads the validation of the DRAW_ACTION handler lets through: a live
\* two-point segment, a completed stroke, and arrays that are not lists of
\* coordinate pairs (empty, one point only, a malformed element).
SegmentData == ObjData(PathArray(<<Point, Point2>>), FALSE)
StrokeData == ObjData(PathArray(<<Point, Point2>>), TRUE)
EmptyPathData == ObjData(PathArray(<<>>), TRUE)
OnePointData == ObjData(PathArray(<<Point>>), TRUE)
JunkPathData == ObjData(PathArray(<<Junk>>), FALSE)
\* Payloads without a usable path: no payload, no path, a path that is no array.
NoPathData == ObjData(PathUndefined, TRUE)
StringPathData == ObjData(PathString, TRUE)

\* A completed stroke whose sender filled in the userId of socket 1 and a
\* timestamp of its own (every client sends a timestamp, canvas.js 148).
ClientTimestamp == 99
ForgedData ==
  [isNull |-> FALSE, path |-> PathArray(<<Point, Point2>>), finalized |-> TRUE,
   userId |-> 1, timestamp |-> ClientTimestamp]

\* The `data` argument of a CURSOR_MOVE event: x and y are numbers, absent
\* (undefined) or something else (a string).
Num(n) == [kind |-> "number", val |-> n]
Undefined == [kind |-> "undefined", val |-> 0]
Text == [kind |-> "string", val |-> 0]
NullCursor == [isNull |-> TRUE, x |-> Undefined, y |-> Undefined]
CursorData(x, y) == [isNull |-> FALSE, x |-> x, y |-> y]
CursorPayloads ==
  {NullCursor, CursorData(Num(0), Num(1)), CursorData(Num(0), Undefined),
   CursorData(Text, Num(1))}

DrawPayloads ==
  {NullData, NoPathData, StringPathData,
   SegmentData, StrokeData, EmptyPathData, OnePointData, JunkPathData}

\* JavaScript truthiness of a path value: undefined is falsy, a non-empty
\* string and every array (the empty one too) are truthy.
Truthy(p) == p.kind # "undefined"
\* Array.isArray
IsArray(p) == p.kind = "array"
\* An element that is an {x, y} coordinate pair.
IsPoint(e) == DOMAIN e = {"x", "y"}

\* ------------------------------------------------------------ map helpers
\* Map.set / Map.delete on a JavaScript Map modelled as a function.
MapSet(m, k, v) == [r \in (DOMAIN m) \cup {k} |-> IF r = k THEN v ELSE m[r]]
MapDelete(m, k) == [r \in (DOMAIN m) \ {k} |-> m[r]]
EmptyMap == [r \in {} |-> 0]

\* Array.prototype.pop / shift results.
Front(s) == SubSeq(s, 1, Len(s) - 1)
Last(s) == s[Len(s)]

\* ---------------------------------------------------------- DrawingState
\* this.MAX_HISTORY_SIZE, the field the DrawingState constructor sets.
VARIABLE maxHistorySize

\* _initRoom(roomId): create { history: [], undoneActions: [] } if absent.
initRoom(rooms, rid) ==
  IF rid \in DOMAIN rooms
    THEN rooms
    ELSE MapSet(rooms, rid, [history |-> <<>>, undoneActions |-> <<>>])

\* Mutant of addAction: the undo stack survives an append.
addAction_KeepsUndone(rooms, rid, action) ==
  LET r0 == initRoom(rooms, rid)
      pushed == Append(r0[rid].history, action)
      limited == IF Len(pushed) > maxHistorySize THEN Tail(pushed) ELSE pushed
  IN  MapSet(r0, rid, [history |-> limited,
                       undoneActions |-> r0[rid].undoneActions])

\* Mutant of addAction: the size test is >= instead of >.
addAction_OffByOne(rooms, rid, action) ==
  LET r0 == initRoom(rooms, rid)
      pushed == Append(r0[rid].history, action)
      limited == IF Len(pushed) >= maxHistorySize THEN Tail(pushed) ELSE pushed
  IN  MapSet(r0, rid, [history |-> limited, undoneActions |-> <<>>])

\* Mutant of addAction: the history is never trimmed.
addAction_NoLimit(rooms, rid, action) ==
  LET r0 == initRoom(rooms, rid)
      pushed == Append(r0[rid].history, action)
  IN  MapSet(r0, rid, [history |-> pushed, undoneActions |-> <<>>])

\* Mutant of addAction: unshift() instead of push(), the new action goes to
\* the front of the history.
addAction_Unshift(rooms, rid, action) ==
  LET r0 == initRoom(rooms, rid)
      pushed == <<action>> \o r0[rid].history
      limited == IF Len(pushed) > maxHistorySize THEN Tail(pushed) ELSE pushed
  IN  MapSet(r0, rid, [history |-> limited, undoneActions |-> <<>>])

\* addAction(roomId, action): push, clear the undo stack, shift when the
\* history is longer than MAX_HISTORY_SIZE.
addAction(rooms, rid, action) ==
  LET r0 == initRoom(rooms, rid)
      pushed == Append(r0[rid].history, action)
      limited == IF Len(pushed) > maxHistorySize THEN Tail(pushed) ELSE pushed
  IN  MapSet(r0, rid, [history |-> limited, undoneActions |-> <<>>])

\* getHistory(roomId): the room's history array (after _initRoom).
getHistory(rooms, rid) ==
  LET r0 == initRoom(rooms, rid)
  IN  [rooms |-> r0, ret |-> r0[rid].history]

\* Mutant of undo: the popped action is not kept for redo.
undo_DropsAction(rooms, rid) ==
  LET r0 == initRoom(rooms, rid)
      room == r0[rid]
  IN  IF Len(room.history) = 0
        THEN [rooms |-> r0, ret |-> FALSE]
        ELSE [rooms |-> MapSet(r0, rid,
                          [history |-> Front(room.history),
                           undoneActions |-> room.undoneActions]),
              ret |-> TRUE]

\* Mutant of undo: shift() instead of pop(), the oldest action is undone.
undo_RemovesOldest(rooms, rid) ==
  LET r0 == initRoom(rooms, rid)
      room == r0[rid]
  IN  IF Len(room.history) = 0
        THEN [rooms |-> r0, ret |-> FALSE]
        ELSE [rooms |-> MapSet(r0, rid,
                          [history |-> Tail(room.history),
                           undoneActions |-> Append(room.undoneActions,
                                                    Head(room.history))]),
              ret |-> TRUE]

\* Mutant of undo: the last action is copied to undoneActions but stays in
\* the history.
undo_KeepsHistory(rooms, rid) ==
  LET r0 == initRoom(rooms, rid)
      room == r0[rid]
  IN  IF Len(room.history) = 0
        THEN [rooms |-> r0, ret |-> FALSE]
        ELSE [rooms |-> MapSet(r0, rid,
                          [history |-> room.history,
                           undoneActions |-> Append(room.undoneActions,
                                                    Last(room.history))]),
              ret |-> TRUE]

\* Mutant of undo: unshift() instead of push(), the undone action goes to
\* the front of undoneActions.
undo_UnshiftsUndone(rooms, rid) ==
  LET r0 == initRoom(rooms, rid)
      room == r0[rid]
  IN  IF Len(room.history) = 0
        THEN [rooms |-> r0, ret |-> FALSE]
        ELSE [rooms |-> MapSet(r0, rid,
                          [history |-> Front(room.history),
                           undoneActions |-> <<Last(room.history)>>
                                               \o room.undoneActions]),
              ret |-> TRUE]

\* undo(roomId): false on empty history, else pop history -> push undoneActions.
undo(rooms, rid) ==
  LET r0 == initRoom(rooms, rid)
      room == r0[rid]
  IN  IF Len(room.history) = 0
        THEN [rooms |-> r0, ret |-> FALSE]
        ELSE [rooms |-> MapSet(r0, rid,
                          [history |-> Front(room.history),
                           undoneActions |-> Append(room.undoneActions,
                                                    Last(room.history))]),
              ret |-> TRUE]

\* Mutant of redo: shift() instead of pop(), the oldest undone action is redone.
redo_TakesOldest(rooms, rid) ==
  LET r0 == initRoom(rooms, rid)
      room == r0[rid]
  IN  IF Len(room.undoneActions) = 0
        THEN [rooms |-> r0, ret |-> FALSE]
        ELSE [rooms |-> MapSet(r0, rid,
                          [history |-> Append(room.history,
                                              Head(room.undoneActions)),
                           undoneActions |-> Tail(room.undoneActions)]),
              ret |-> TRUE]

\* Mutant of redo: the redone action is pushed on the history but not
\* popped from undoneActions.
redo_KeepsUndone(rooms, rid) ==
  LET r0 == initRoom(rooms, rid)
      room == r0[rid]
  IN  IF Len(room.undoneActions) = 0
        THEN [rooms |-> r0, ret |-> FALSE]
        ELSE [rooms |-> MapSet(r0, rid,
                          [history |-> Append(room.history,
                                              Last(room.undoneActions)),
                           undoneActions |-> room.undoneActions]),
              ret |-> TRUE]

\* redo(roomId): false on empty undoneActions, else pop undoneActions -> push history.
redo(rooms, rid) ==
  LET r0 == initRoom(rooms, rid)
      room == r0[rid]
  IN  IF Len(room.undoneActions) = 0
        THEN [rooms |-> r0, ret |-> FALSE]
        ELSE [rooms |-> MapSet(r0, rid,
                          [history |-> Append(room.history,
                                              Last(room.undoneActions)),
                           undoneActions |-> Front(room.undoneActions)]),
              ret |-> TRUE]

\* Mutant of clear: only the history is emptied.
clear_KeepsUndone(rooms, rid) ==
  LET r0 == initRoom(rooms, rid)
  IN  MapSet(r0, rid, [history |-> <<>>,
                       undoneActions |-> r0[rid].undoneActions])

\* Mutant of clear: the arrays of every room are emptied.
clear_AllRooms(rooms, rid) ==
  LET r0 == initRoom(rooms, rid)
  IN  [r \in DOMAIN r0 |-> [history |-> <<>>, undoneActions |-> <<>>]]

\* clear(roomId): both arrays replaced by empty ones.
clear(rooms, rid) ==
  LET r0 == initRoom(rooms, rid)
  IN  MapSet(r0, rid, [history |-> <<>>, undoneActions |-> <<>>])

\* ----------------------------------------------------------- RoomManager
\* Mutant of addUser: an existing entry is replaced by a fresh one.
addUser_Replaces(rooms, rid, userId, color, t) ==
  LET r0 == IF rid \in DOMAIN rooms THEN rooms ELSE MapSet(rooms, rid, <<>>)
      room == r0[rid]
      fresh == [userId |-> userId, color |-> color, joinedAt |-> t]
  IN  IF \E i \in 1..Len(room) : room[i].userId = userId
        THEN MapSet(r0, rid,
                    [i \in 1..Len(room) |->
                       IF room[i].userId = userId THEN fresh ELSE room[i]])
        ELSE MapSet(r0, rid, Append(room, fresh))

\* addUser(roomId, userId, color): create the room if absent; push
\* {userId, color, joinedAt} unless a user with that id is already there.
addUser(rooms, rid, userId, color, t) ==
  LET r0 == IF rid \in DOMAIN rooms THEN rooms ELSE MapSet(rooms, rid, <<>>)
      room == r0[rid]
  IN  IF \E i \in 1..Len(room) : room[i].userId = userId
        THEN r0
        ELSE MapSet(r0, rid,
                    Append(room, [userId |-> userId, color |-> color,
                                  joinedAt |-> t]))

\* Mutant of removeUser: an emptied room keeps its (empty) entry.
removeUser_KeepsEmptyRoom(rooms, rid, userId) ==
  IF rid \notin DOMAIN rooms
    THEN rooms
    ELSE LET room == rooms[rid]
             hits == {i \in 1..Len(room) : room[i].userId = userId}
             index == IF hits = {} THEN 0
                      ELSE CHOOSE i \in hits : \A j \in hits : i <= j
             spliced == IF index = 0 THEN room
                        ELSE SubSeq(room, 1, index - 1)
                               \o SubSeq(room, index + 1, Len(room))
         IN  MapSet(rooms, rid, spliced)

\* Mutant of removeUser: the entry is removed by moving the last entry into
\* its place.
removeUser_SwapLast(rooms, rid, userId) ==
  IF rid \notin DOMAIN rooms
    THEN rooms
    ELSE LET room == rooms[rid]
             hits == {i \in 1..Len(room) : room[i].userId = userId}
             index == IF hits = {} THEN 0
                      ELSE CHOOSE i \in hits : \A j \in hits : i <= j
             spliced == IF index = 0 THEN room
                        ELSE [i \in 1..(Len(room) - 1) |->
                                IF i = index THEN room[Len(room)] ELSE room[i]]
         IN  IF Len(spliced) = 0
               THEN MapDelete(rooms, rid)
               ELSE MapSet(rooms, rid, spliced)

\* removeUser(roomId, userId): splice out the first entry with that userId
\* (findIndex), then delete the room when its array is empty.
removeUser(rooms, rid, userId) ==
  IF rid \notin DOMAIN rooms
    THEN rooms
    ELSE LET room == rooms[rid]
             hits == {i \in 1..Len(room) : room[i].userId = userId}
             index == IF hits = {} THEN 0
                      ELSE CHOOSE i \in hits : \A j \in hits : i <= j
             spliced == IF index = 0 THEN room
                        ELSE SubSeq(room, 1, index - 1)
                               \o SubSeq(room, index + 1, Len(room))
         IN  IF Len(spliced) = 0
               THEN MapDelete(rooms, rid)
               ELSE MapSet(rooms, rid, spliced)

\* getUsers(roomId): [] for an unknown room, else the room's array; the
\* map is left as it is.
getUsers(rooms, rid) ==
  [rooms |-> rooms,
   ret |-> IF rid \in DOMAIN rooms THEN rooms[rid] ELSE <<>>]

\* getUserCount(roomId): 0 for an unknown room, else the array's length.
getUserCount(rooms, rid) ==
  [rooms |-> rooms,
   ret |-> IF rid \in DOMAIN rooms THEN Len(rooms[rid]) ELSE 0]

\* hasUser(roomId, userId): false for an unknown room, else room.some(...).
hasUser(rooms, rid, userId) ==
  [rooms |-> rooms,
   ret |-> IF rid \in DOMAIN rooms
             THEN \E i \in 1..Len(rooms[rid]) : rooms[rid][i].userId = userId
             ELSE FALSE]

\* ------------------------------------------------------------------ state
VARIABLES
  drawingState,   \* DrawingState.rooms : roomId -> {history, undoneActions}
  roomManager,    \* RoomManager.rooms  : roomId -> array of users
  conn,           \* per socket: "new" | "active" | "disconnected"
  userColor,      \* per socket: the userColor const of its connection closure
  now,            \* the server clock read by Date.now()
  nextOid,        \* identity of the next action object the server allocates
  lastEvent,      \* the event whose handler ran last
  emitted,        \* the emit calls of that handler, in order
  prev,           \* history / undoneActions of the room before that handler
  held,           \* an array a caller got from getHistory / getUsers and kept
  clientState,    \* per socket: the `state` object of its browser client
  toServer,       \* per socket: events the client sent, not yet handled
  toClient        \* per socket: server messages not yet received by the client

vars == <<maxHistorySize, drawingState, roomManager, conn, userColor, now,
          nextOid, lastEvent, emitted, prev, held, clientState, toServer,
          toClient>>

\* state = { history: [], canUndo: false, canRedo: false } of main.js;
\* canUndo is never written after that.
ClientInit == [history |-> <<>>, canRedo |-> FALSE]

\* The state of the browser clients and of the two directions of their
\* connections.
clientVars == <<clientState, toServer, toClient>>
\* A step of the server alone, nobody holding on to a returned array.
ServerOnly == UNCHANGED <<held, clientState, toServer, toClient>>

\* The array reference a caller holds: which getter returned it and for which
\* room, whether it still is the array the room's entry refers to (live),
\* its elements when it was returned (at) and its elements now (cur).
NoHeld ==
  [kind |-> "none", rid |-> "", live |-> FALSE, at |-> <<>>, cur |-> <<>>]

\* The sockets in socket.io room `roomId`: socket.join(roomId) on connection,
\* left automatically before the 'disconnect' handler runs.
InRoom == {s \in Sockets : conn[s] = "active"}

\* The committed history / undo stack of the default room (empty if the
\* room was never touched).
History ==
  IF roomId \in DOMAIN drawingState THEN drawingState[roomId].history ELSE <<>>
UndoStack ==
  IF roomId \in DOMAIN drawingState THEN drawingState[roomId].undoneActions
                                    ELSE <<>>

\* One emit call with its audience resolved:
\*   socket.emit          -> {socket}
\*   socket.to(room).emit -> room members except socket
\*   io.to(room).emit     -> all room members
Emit(ev, audience, payload) ==
  [event |-> ev, audience |-> audience, payload |-> payload]
NoPayload == [none |-> TRUE]

Snapshot == [history |-> History, undoneActions |-> UndoStack]
EventRec(type, s, data, ok) ==
  [type |-> type, socket |-> s, data |-> data, ok |-> ok]

Init ==
  /\ maxHistorySize = MAX_HISTORY_SIZE
  /\ drawingState = EmptyMap
  /\ roomManager = EmptyMap
  /\ conn = [s \in Sockets |-> "new"]
  /\ userColor = [s \in Sockets |-> "none"]
  /\ now = 0
  /\ nextOid = 1
  /\ lastEvent = EventRec("none", 0, NullData, FALSE)
  /\ emitted = <<>>
  /\ prev = [history |-> <<>>, undoneActions |-> <<>>]
  /\ held = NoHeld
  /\ clientState = [s \in Sockets |-> ClientInit]
  /\ toServer = [s \in Sockets |-> <<>>]
  /\ toClient = [s \in Sockets |-> <<>>]

\* Date.now(): a reading is never below the latest earlier reading.
ClockReadings == {t \in now..(now + 1) : t <= MaxClock}

\* Mutant of the connection handler: INIT_CANVAS is built before addUser.
Connection_InitBeforeJoin(s, color, t) ==
  /\ conn[s] = "new"
  /\ t \in ClockReadings
  /\ now' = t
  /\ LET gh == getHistory(drawingState, roomId)
         gu1 == getUsers(roomManager, roomId)
         rm == addUser(gu1.rooms, roomId, s, color, t)
         gu2 == getUsers(rm, roomId)
         members == InRoom \cup {s}
     IN  /\ conn' = [conn EXCEPT ![s] = "active"]
         /\ userColor' = [userColor EXCEPT ![s] = color]
         /\ roomManager' = gu2.rooms
         /\ drawingState' = gh.rooms
         /\ emitted' =
              << Emit("INIT_CANVAS", {s},
                      [history |-> gh.ret, users |-> gu1.ret,
                       userId |-> s, userColor |-> color]),
                 Emit("USER_JOINED", members \ {s},
                      [userId |-> s, color |-> color, users |-> gu2.ret]) >>
  /\ lastEvent' = EventRec("connection", s, NullData, TRUE)
  /\ prev' = Snapshot
  /\ UNCHANGED <<maxHistorySize, nextOid>>

\* Mutant of the connection handler: USER_JOINED goes out with io.to(roomId),
\* the new connection included.
Connection_JoinedToAll(s, color, t) ==
  /\ conn[s] = "new"
  /\ t \in ClockReadings
  /\ now' = t
  /\ LET rm == addUser(roomManager, roomId, s, color, t)
         gh == getHistory(drawingState, roomId)
         gu1 == getUsers(rm, roomId)
         gu2 == getUsers(gu1.rooms, roomId)
         members == InRoom \cup {s}
     IN  /\ conn' = [conn EXCEPT ![s] = "active"]
         /\ userColor' = [userColor EXCEPT ![s] = color]
         /\ roomManager' = gu2.rooms
         /\ drawingState' = gh.rooms
         /\ emitted' =
              << Emit("INIT_CANVAS", {s},
                      [history |-> gh.ret, users |-> gu1.ret,
                       userId |-> s, userColor |-> color]),
                 Emit("USER_JOINED", members,
                      [userId |-> s, color |-> color, users |-> gu2.ret]) >>
  /\ lastEvent' = EventRec("connection", s, NullData, TRUE)
  /\ prev' = Snapshot
  /\ UNCHANGED <<maxHistorySize, nextOid>>

\* io.on('connection'): server.js 35-59.
Connection(s, color, t) ==
  /\ conn[s] = "new"
  /\ t \in ClockReadings
  /\ now' = t
  /\ LET rm == addUser(roomManager, roomId, s, color, t)
         gh == getHistory(drawingState, roomId)
         gu1 == getUsers(rm, roomId)
         gu2 == getUsers(gu1.rooms, roomId)
         members == InRoom \cup {s}
     IN  /\ conn' = [conn EXCEPT ![s] = "active"]
         /\ userColor' = [userColor EXCEPT ![s] = color]
         /\ roomManager' = gu2.rooms
         /\ drawingState' = gh.rooms
         /\ emitted' =
              << Emit("INIT_CANVAS", {s},
                      [history |-> gh.ret, users |-> gu1.ret,
                       userId |-> s, userColor |-> color]),
                 Emit("USER_JOINED", members \ {s},
                      [userId |-> s, color |-> color, users |-> gu2.ret]) >>
  /\ lastEvent' = EventRec("connection", s, NullData, TRUE)
  /\ prev' = Snapshot
  /\ UNCHANGED <<maxHistorySize, nextOid>>

\* Mutant of the validation: the Array.isArray test is missing.
InvalidDrawingData_NoArrayCheck(data) ==
  data.isNull \/ ~Truthy(data.path)

\* The validation of the DRAW_ACTION handler:
\*   !data || !data.path || !Array.isArray(data.path)
InvalidDrawingData(data) ==
  data.isNull \/ ~Truthy(data.path) \/ ~IsArray(data.path)

\* Mutant of the stamping: { userId, timestamp, ...data }, the fields of the
\* payload replace the server's.
StampAction_ClientFieldsWin(data, oid, s, t) ==
  LET stamp == [oid |-> oid, userId |-> s, timestamp |-> t]
      own == DOMAIN data \ {"isNull"}
      fields == own \cup DOMAIN stamp
  IN  [f \in fields |-> IF f \in own THEN data[f] ELSE stamp[f]]

\* const action = { ...data, userId: socket.id, timestamp: Date.now() }:
\* the payload's own fields, then userId and timestamp, which replace fields
\* of these names that the payload brought along. oid is the identity of
\* the new object; isNull is no field of a payload.
StampAction(data, oid, s, t) ==
  LET stamp == [oid |-> oid, userId |-> s, timestamp |-> t]
      fields == (DOMAIN data \ {"isNull"}) \cup DOMAIN stamp
  IN  [f \in fields |-> IF f \in DOMAIN stamp THEN stamp[f] ELSE data[f]]

\* socket.on('DRAW_ACTION'): server.js 65-88.
DRAW_ACTION(s, data, t) ==
  /\ conn[s] = "active"
  /\ t \in ClockReadings
  /\ IF InvalidDrawingData(data)
       THEN \* 'Invalid drawing data received': return
            /\ lastEvent' = EventRec("DRAW_ACTION", s, data, FALSE)
            /\ t = now
            /\ emitted' = <<>>
            /\ UNCHANGED <<drawingState, nextOid, now>>
       ELSE /\ nextOid <= MaxActions
            /\ LET action == StampAction(data, nextOid, s, t)
               IN  /\ drawingState' = addAction(drawingState, roomId, action)
                   /\ emitted' = << Emit("DRAW_ACTION", InRoom \ {s}, action) >>
            /\ nextOid' = nextOid + 1
            /\ now' = t
            /\ lastEvent' = EventRec("DRAW_ACTION", s, data, TRUE)
  /\ prev' = Snapshot
  /\ UNCHANGED <<maxHistorySize, roomManager, conn, userColor>>

\* Mutant of the CURSOR_MOVE handler: io.to(roomId), the sender gets its own
\* cursor back.
CURSOR_MOVE_ToAll(s, data) ==
  /\ conn[s] = "active"
  /\ IF data.isNull
       THEN /\ emitted' = <<>>
            /\ lastEvent' = EventRec("CURSOR_MOVE", s, data, FALSE)
       ELSE /\ emitted' = << Emit("CURSOR_UPDATE", InRoom,
                                  [userId |-> s, x |-> data.x, y |-> data.y,
                                   color |-> userColor[s]]) >>
            /\ lastEvent' = EventRec("CURSOR_MOVE", s, data, TRUE)
  /\ prev' = Snapshot
  /\ UNCHANGED <<maxHistorySize, drawingState, roomManager, conn, userColor,
                 now, nextOid>>

\* socket.on('CURSOR_MOVE'): server.js 94-105. Reading data.x of a missing
\* payload raises a TypeError, which the catch logs; any other payload is
\* relayed with whatever x and y it has.
CURSOR_MOVE(s, data) ==
  /\ conn[s] = "active"
  /\ IF data.isNull
       THEN /\ emitted' = <<>>
            /\ lastEvent' = EventRec("CURSOR_MOVE", s, data, FALSE)
       ELSE /\ emitted' = << Emit("CURSOR_UPDATE", InRoom \ {s},
                                  [userId |-> s, x |-> data.x, y |-> data.y,
                                   color |-> userColor[s]]) >>
            /\ lastEvent' = EventRec("CURSOR_MOVE", s, data, TRUE)
  /\ prev' = Snapshot
  /\ UNCHANGED <<maxHistorySize, drawingState, roomManager, conn, userColor,
                 now, nextOid>>

\* Mutant of the UNDO handler: per-author undo, a connection can only undo
\* an action it committed itself.
UNDO_OwnOnly(s) ==
  /\ conn[s] = "active"
  /\ LET own == History # <<>> /\ Last(History).userId = s
         u == IF own THEN undo(drawingState, roomId)
                     ELSE [rooms |-> initRoom(drawingState, roomId),
                           ret |-> FALSE]
     IN  IF u.ret
           THEN LET gh == getHistory(u.rooms, roomId)
                IN  /\ drawingState' = gh.rooms
                    /\ emitted' = << Emit("UNDO_ACTION", InRoom,
                                          [history |-> gh.ret]) >>
                    /\ lastEvent' = EventRec("UNDO", s, NullData, TRUE)
           ELSE /\ drawingState' = u.rooms
                /\ emitted' = <<>>
                /\ lastEvent' = EventRec("UNDO", s, NullData, FALSE)
  /\ prev' = Snapshot
  /\ UNCHANGED <<maxHistorySize, roomManager, conn, userColor, now, nextOid>>

\* Mutant of the UNDO handler: socket.to(roomId) instead of io.to(roomId),
\* the sender is left out of the broadcast.
UNDO_ToOthers(s) ==
  /\ conn[s] = "active"
  /\ LET u == undo(drawingState, roomId)
     IN  IF u.ret
           THEN LET gh == getHistory(u.rooms, roomId)
                IN  /\ drawingState' = gh.rooms
                    /\ emitted' = << Emit("UNDO_ACTION", InRoom \ {s},
                                          [history |-> gh.ret]) >>
                    /\ lastEvent' = EventRec("UNDO", s, NullData, TRUE)
           ELSE /\ drawingState' = u.rooms
                /\ emitted' = <<>>
                /\ lastEvent' = EventRec("UNDO", s, NullData, FALSE)
  /\ prev' = Snapshot
  /\ UNCHANGED <<maxHistorySize, roomManager, conn, userColor, now, nextOid>>

\* socket.on('UNDO'): server.js 111-124.
UNDO(s) ==
  /\ conn[s] = "active"
  /\ LET u == undo(drawingState, roomId)
     IN  IF u.ret
           THEN LET gh == getHistory(u.rooms, roomId)
                IN  /\ drawingState' = gh.rooms
                    /\ emitted' = << Emit("UNDO_ACTION", InRoom,
                                          [history |-> gh.ret]) >>
                    /\ lastEvent' = EventRec("UNDO", s, NullData, TRUE)
           ELSE /\ drawingState' = u.rooms
                /\ emitted' = <<>>
                /\ lastEvent' = EventRec("UNDO", s, NullData, FALSE)
  /\ prev' = Snapshot
  /\ UNCHANGED <<maxHistorySize, roomManager, conn, userColor, now, nextOid>>

\* Mutant of the REDO handler: the payload is the history read before redo().
REDO_StaleHistory(s) ==
  /\ conn[s] = "active"
  /\ LET gh == getHistory(drawingState, roomId)
         r == redo(gh.rooms, roomId)
     IN  IF r.ret
           THEN /\ drawingState' = r.rooms
                /\ emitted' = << Emit("REDO_ACTION", InRoom,
                                      [history |-> gh.ret]) >>
                /\ lastEvent' = EventRec("REDO", s, NullData, TRUE)
           ELSE /\ drawingState' = r.rooms
                /\ emitted' = <<>>
                /\ lastEvent' = EventRec("REDO", s, NullData, FALSE)
  /\ prev' = Snapshot
  /\ UNCHANGED <<maxHistorySize, roomManager, conn, userColor, now, nextOid>>

\* socket.on('REDO'): server.js 130-143.
REDO(s) ==
  /\ conn[s] = "active"
  /\ LET r == redo(drawingState, roomId)
     IN  IF r.ret
           THEN LET gh == getHistory(r.rooms, roomId)
                IN  /\ drawingState' = gh.rooms
                    /\ emitted' = << Emit("REDO_ACTION", InRoom,
                                          [history |-> gh.ret]) >>
                    /\ lastEvent' = EventRec("REDO", s, NullData, TRUE)
           ELSE /\ drawingState' = r.rooms
                /\ emitted' = <<>>
                /\ lastEvent' = EventRec("REDO", s, NullData, FALSE)
  /\ prev' = Snapshot
  /\ UNCHANGED <<maxHistorySize, roomManager, conn, userColor, now, nextOid>>

\* socket.on('CLEAR_CANVAS'): server.js 149-158.
CLEAR_CANVAS(s) ==
  /\ conn[s] = "active"
  /\ drawingState' = clear(drawingState, roomId)
  /\ emitted' = << Emit("CANVAS_CLEARED", InRoom, NoPayload) >>
  /\ lastEvent' = EventRec("CLEAR_CANVAS", s, NullData, TRUE)
  /\ prev' = Snapshot
  /\ UNCHANGED <<maxHistorySize, roomManager, conn, userColor, now, nextOid>>

\* Mutant of the disconnect handler: the USER_LEFT list is read before
\* removeUser.
Disconnect_StaleList(s) ==
  /\ conn[s] = "active"
  /\ LET gu == getUsers(roomManager, roomId)
         rm == removeUser(gu.rooms, roomId, s)
     IN  /\ roomManager' = rm
         /\ emitted' = << Emit("USER_LEFT", InRoom \ {s},
                               [userId |-> s, users |-> gu.ret]) >>
  /\ conn' = [conn EXCEPT ![s] = "disconnected"]
  /\ lastEvent' = EventRec("disconnect", s, NullData, TRUE)
  /\ prev' = Snapshot
  /\ UNCHANGED <<maxHistorySize, drawingState, userColor, now, nextOid>>

\* Mutant of Disconnect: the user is not removed from the RoomManager.
Disconnect_KeepsUser(s) ==
  /\ conn[s] = "active"
  /\ LET gu == getUsers(roomManager, roomId)
     IN  /\ roomManager' = gu.rooms
         /\ emitted' = << Emit("USER_LEFT", InRoom \ {s},
                               [userId |-> s, users |-> gu.ret]) >>
  /\ conn' = [conn EXCEPT ![s] = "disconnected"]
  /\ lastEvent' = EventRec("disconnect", s, NullData, TRUE)
  /\ prev' = Snapshot
  /\ UNCHANGED <<maxHistorySize, drawingState, userColor, now, nextOid>>

\* socket.on('disconnect'): server.js 164-174.
Disconnect(s) ==
  /\ conn[s] = "active"
  /\ LET rm == removeUser(roomManager, roomId, s)
         gu == getUsers(rm, roomId)
     IN  /\ roomManager' = gu.rooms
         /\ emitted' = << Emit("USER_LEFT", InRoom \ {s},
                               [userId |-> s, users |-> gu.ret]) >>
  /\ conn' = [conn EXCEPT ![s] = "disconnected"]
  /\ lastEvent' = EventRec("disconnect", s, NullData, TRUE)
  /\ prev' = Snapshot
  /\ UNCHANGED <<maxHistorySize, drawingState, userColor, now, nextOid>>

Next ==
  \/ \E s \in Sockets, c \in Colors, t \in 0..MaxClock :
        Connection(s, c, t) /\ ServerOnly
  \/ \E s \in Sockets, d \in DrawPayloads, t \in 0..MaxClock :
        DRAW_ACTION(s, d, t) /\ ServerOnly
  \/ \E s \in Sockets : UNDO(s) /\ ServerOnly
  \/ \E s \in Sockets : REDO(s) /\ ServerOnly
  \/ \E s \in Sockets : CLEAR_CANVAS(s) /\ ServerOnly
  \/ \E s \in Sockets : Disconnect(s) /\ ServerOnly

Spec == Init /\ [][Next]_vars

\* ------------------------------------------------- deeper histories
\* The same handlers, and the cursor relay (which changes nothing on the
\* server), on a DrawingState whose MAX_HISTORY_SIZE lets three committed
\* strokes be alive at once; the clients send completed strokes, with or
\* without userId and timestamp fields of their own, or payloads without a
\* path.
DeepPayloads == {StrokeData, NoPathData, ForgedData}

InitDeep ==
  /\ maxHistorySize = MAX_HISTORY_SIZE_DEEP
  /\ drawingState = EmptyMap
  /\ roomManager = EmptyMap
  /\ conn = [s \in Sockets |-> "new"]
  /\ userColor = [s \in Sockets |-> "none"]
  /\ now = 0
  /\ nextOid = 1
  /\ lastEvent = EventRec("none", 0, NullData, FALSE)
  /\ emitted = <<>>
  /\ prev = [history |-> <<>>, undoneActions |-> <<>>]
  /\ held = NoHeld
  /\ clientState = [s \in Sockets |-> ClientInit]
  /\ toServer = [s \in Sockets |-> <<>>]
  /\ toClient = [s \in Sockets |-> <<>>]

NextDeep ==
  \/ \E s \in Sockets, c \in Colors, t \in 0..MaxClock :
        Connection(s, c, t) /\ ServerOnly
  \/ \E s \in Sockets, d \in DeepPayloads, t \in 0..MaxClock :
        DRAW_ACTION(s, d, t) /\ ServerOnly
  \/ \E s \in Sockets, d \in CursorPayloads : CURSOR_MOVE(s, d) /\ ServerOnly
  \/ \E s \in Sockets : UNDO(s) /\ ServerOnly
  \/ \E s \in Sockets : REDO(s) /\ ServerOnly
  \/ \E s \in Sockets : CLEAR_CANVAS(s) /\ ServerOnly
  \/ \E s \in Sockets : Disconnect(s) /\ ServerOnly

SpecDeep == InitDeep /\ [][NextDeep]_vars

\* ------------------------------------------------- handlers that throw
\* Runs of the handlers in which a call inside the try block raises: either
\* the DrawingState call, before it has changed anything ("log"), or the
\* emit call that follows it ("emit"). The catch block logs the error and
\* the handler returns; nothing undoes what the try block did before the
\* exception.
ThrowPoints == {"log", "emit"}
ThrowRec(type, s, data, point) ==
  [type |-> type, socket |-> s, data |-> data, ok |-> FALSE, threw |-> point]

\* socket.on('DRAW_ACTION') with addAction or socket.to(roomId).emit raising.
DRAW_ACTION_Throws(s, data, t, point) ==
  /\ conn[s] = "active"
  /\ t \in ClockReadings
  /\ ~InvalidDrawingData(data)
  /\ nextOid <= MaxActions
  /\ LET action == StampAction(data, nextOid, s, t)
     IN  drawingState' = IF point = "log"
                           THEN drawingState
                           ELSE addAction(drawingState, roomId, action)
  /\ nextOid' = nextOid + 1
  /\ now' = t
  /\ emitted' = <<>>
  /\ lastEvent' = ThrowRec("DRAW_ACTION", s, data, point)
  /\ prev' = Snapshot
  /\ UNCHANGED <<maxHistorySize, roomManager, conn, userColor>>

\* socket.on('UNDO') with undo or io.to(roomId).emit raising (emit is only
\* called after a successful undo).
UNDO_Throws(s, point) ==
  /\ conn[s] = "active"
  /\ LET u == undo(drawingState, roomId)
     IN  IF point = "log"
           THEN drawingState' = drawingState
           ELSE u.ret /\ drawingState' = getHistory(u.rooms, roomId).rooms
  /\ emitted' = <<>>
  /\ lastEvent' = ThrowRec("UNDO", s, NullData, point)
  /\ prev' = Snapshot
  /\ UNCHANGED <<maxHistorySize, roomManager, conn, userColor, now, nextOid>>

\* socket.on('REDO') with redo or io.to(roomId).emit raising.
REDO_Throws(s, point) ==
  /\ conn[s] = "active"
  /\ LET r == redo(drawingState, roomId)
     IN  IF point = "log"
           THEN drawingState' = drawingState
           ELSE r.ret /\ drawingState' = getHistory(r.rooms, roomId).rooms
  /\ emitted' = <<>>
  /\ lastEvent' = ThrowRec("REDO", s, NullData, point)
  /\ prev' = Snapshot
  /\ UNCHANGED <<maxHistorySize, roomManager, conn, userColor, now, nextOid>>

\* socket.on('CLEAR_CANVAS') with clear or io.to(roomId).emit raising.
CLEAR_CANVAS_Throws(s, point) ==
  /\ conn[s] = "active"
  /\ drawingState' = IF point = "log" THEN drawingState
                                      ELSE clear(drawingState, roomId)
  /\ emitted' = <<>>
  /\ lastEvent' = ThrowRec("CLEAR_CANVAS", s, NullData, point)
  /\ prev' = Snapshot
  /\ UNCHANGED <<maxHistorySize, roomManager, conn, userColor, now, nextOid>>

NextThrows ==
  \/ NextDeep
  \/ \E s \in Sockets, t \in 0..MaxClock, pt \in ThrowPoints :
        DRAW_ACTION_Throws(s, StrokeData, t, pt) /\ ServerOnly
  \/ \E s \in Sockets, pt \in ThrowPoints : UNDO_Throws(s, pt) /\ ServerOnly
  \/ \E s \in Sockets, pt \in ThrowPoints : REDO_Throws(s, pt) /\ ServerOnly
  \/ \E s \in Sockets, pt \in ThrowPoints :
        CLEAR_CANVAS_Throws(s, pt) /\ ServerOnly

SpecThrows == InitDeep /\ [][NextThrows]_vars

\* ------------------------------------------------- RoomManager alone
\* The RoomManager methods called directly, with any room id, user id,
\* colour and clock reading; only the RoomManager's map changes.
RoomIds == {roomId, "lobby"}
\* Largest clock reading of a run of direct RoomManager calls.
RoomsMaxClock == 1
RoomsClockReadings == {t \in now..(now + 1) : t <= RoomsMaxClock}

CallRec(method, rid, userId, color, t) ==
  [type |-> method, socket |-> userId,
   data |-> [rid |-> rid, color |-> color, joinedAt |-> t], ok |-> TRUE]

\* What a held array reference shows after a method changed, in place, the
\* array that the entry `rid` of a map refers to (push, pop, shift, splice):
\* a holder of that same array sees the new elements.
HeldAfterInPlace(h, kind, rid, elems) ==
  IF h.kind = kind /\ h.rid = rid /\ h.live THEN [h EXCEPT !.cur = elems] ELSE h
\* ... and after the entry was given another array or was deleted: the held
\* array keeps its elements and is no longer the entry's array.
HeldAfterReplace(h, kind, rid) ==
  IF h.kind = kind /\ h.rid = rid THEN [h EXCEPT !.live = FALSE] ELSE h
\* The reference a getter hands out: the entry's own array when the getter
\* returns it as it is, a fresh array otherwise.
HeldFrom(kind, rid, isEntry, elems) ==
  [kind |-> kind, rid |-> rid, live |-> isEntry, at |-> elems, cur |-> elems]

\* roomManager.addUser(rid, userId, color), Date.now() reading t. The new
\* user is pushed onto the room's own array.
AddUserCall(rid, userId, color, t) ==
  /\ t \in RoomsClockReadings
  /\ now' = t
  /\ roomManager' = addUser(roomManager, rid, userId, color, t)
  /\ held' = HeldAfterInPlace(held, "users", rid, roomManager'[rid])
  /\ lastEvent' = CallRec("addUser", rid, userId, color, t)
  /\ prev' = [rooms |-> roomManager]
  /\ UNCHANGED <<maxHistorySize, drawingState, conn, userColor, nextOid,
                 emitted>>
  /\ UNCHANGED clientVars

\* roomManager.removeUser(rid, userId). The user is spliced out of the
\* room's own array; an emptied array is then dropped from the map.
RemoveUserCall(rid, userId) ==
  /\ roomManager' = removeUser(roomManager, rid, userId)
  /\ held' = IF rid \in DOMAIN roomManager'
               THEN HeldAfterInPlace(held, "users", rid, roomManager'[rid])
               ELSE HeldAfterReplace(
                      HeldAfterInPlace(held, "users", rid, <<>>), "users", rid)
  /\ lastEvent' = CallRec("removeUser", rid, userId, "none", now)
  /\ prev' = [rooms |-> roomManager]
  /\ UNCHANGED <<maxHistorySize, drawingState, conn, userColor, now, nextOid,
                 emitted>>
  /\ UNCHANGED clientVars

\* const users = roomManager.getUsers(rid), the caller keeping `users`.
GetUsersCall(rid) ==
  /\ LET gu == getUsers(roomManager, rid)
     IN  /\ roomManager' = gu.rooms
         /\ held' = HeldFrom("users", rid, rid \in DOMAIN roomManager, gu.ret)
  /\ lastEvent' = CallRec("getUsers", rid, 0, "none", now)
  /\ prev' = [rooms |-> roomManager]
  /\ UNCHANGED <<maxHistorySize, drawingState, conn, userColor, now, nextOid,
                 emitted>>
  /\ UNCHANGED clientVars

NextRooms ==
  \/ \E rid \in RoomIds, u \in Sockets, c \in Colors, t \in 0..RoomsMaxClock :
        AddUserCall(rid, u, c, t)
  \/ \E rid \in RoomIds, u \in Sockets : RemoveUserCall(rid, u)

SpecRooms == Init /\ [][NextRooms]_vars

\* ------------------------------------------- RoomManager, lists kept
\* Up to NumUsers users join and leave the default room, no one ever joins
\* the other room, and a caller keeps the array getUsers returned across
\* later calls.
NumUsers == 3
UserIds == 1..NumUsers

NextRoomsHeld ==
  \/ \E u \in UserIds, t \in 0..RoomsMaxClock :
        AddUserCall(roomId, u, "#aaaaaa", t)
  \/ \E u \in UserIds : RemoveUserCall(roomId, u)
  \/ \E rid \in RoomIds : GetUsersCall(rid)

SpecRoomsHeld == Init /\ [][NextRoomsHeld]_vars

\* ------------------------------------------------ DrawingState alone
\* The DrawingState methods called directly on the default room, by a
\* caller that keeps the array getHistory returned across later calls.
LogRec(method, ok) == EventRec(method, 0, NullData, ok)

\* drawingState.addAction(roomId, action) with a fresh action object, as the
\* DRAW_ACTION handler builds it for a completed stroke. push and shift
\* work on the room's own history array.
AddActionCall(userId) ==
  /\ nextOid <= MaxActions
  /\ LET action == [oid |-> nextOid, path |-> StrokeData.path,
                    finalized |-> StrokeData.finalized,
                    userId |-> userId, timestamp |-> now]
     IN  drawingState' = addAction(drawingState, roomId, action)
  /\ held' = HeldAfterInPlace(held, "history", roomId,
                              drawingState'[roomId].history)
  /\ nextOid' = nextOid + 1
  /\ lastEvent' = LogRec("addAction", TRUE)
  /\ prev' = Snapshot
  /\ UNCHANGED <<maxHistorySize, roomManager, conn, userColor, now, emitted>>
  /\ UNCHANGED clientVars

\* drawingState.undo(roomId): pop on the room's own history array.
UndoCall ==
  /\ LET u == undo(drawingState, roomId)
     IN  /\ drawingState' = u.rooms
         /\ lastEvent' = LogRec("undo", u.ret)
  /\ held' = HeldAfterInPlace(held, "history", roomId,
                              drawingState'[roomId].history)
  /\ prev' = Snapshot
  /\ UNCHANGED <<maxHistorySize, roomManager, conn, userColor, now, nextOid,
                 emitted>>
  /\ UNCHANGED clientVars

\* drawingState.redo(roomId): push on the room's own history array.
RedoCall ==
  /\ LET r == redo(drawingState, roomId)
     IN  /\ drawingState' = r.rooms
         /\ lastEvent' = LogRec("redo", r.ret)
  /\ held' = HeldAfterInPlace(held, "history", roomId,
                              drawingState'[roomId].history)
  /\ prev' = Snapshot
  /\ UNCHANGED <<maxHistorySize, roomManager, conn, userColor, now, nextOid,
                 emitted>>
  /\ UNCHANGED clientVars

\* drawingState.clear(roomId): room.history = [] gives the room a new array.
ClearCall ==
  /\ drawingState' = clear(drawingState, roomId)
  /\ held' = HeldAfterReplace(held, "history", roomId)
  /\ lastEvent' = LogRec("clear", TRUE)
  /\ prev' = Snapshot
  /\ UNCHANGED <<maxHistorySize, roomManager, conn, userColor, now, nextOid,
                 emitted>>
  /\ UNCHANGED clientVars

\* const history = drawingState.getHistory(roomId), the caller keeping
\* `history`: it is the room's own array.
GetHistoryCall ==
  /\ LET gh == getHistory(drawingState, roomId)
     IN  /\ drawingState' = gh.rooms
         /\ held' = HeldFrom("history", roomId, TRUE, gh.ret)
  /\ lastEvent' = LogRec("getHistory", TRUE)
  /\ prev' = Snapshot
  /\ UNCHANGED <<maxHistorySize, roomManager, conn, userColor, now, nextOid,
                 emitted>>
  /\ UNCHANGED clientVars

NextLog ==
  \/ \E u \in Sockets : AddActionCall(u)
  \/ UndoCall
  \/ RedoCall
  \/ ClearCall
  \/ GetHistoryCall

SpecLog == InitDeep /\ [][NextLog]_vars

\* ------------------------------------------- two rooms, both classes
\* The methods of DrawingState and of RoomManager called directly with
\* either of two room ids, on one DrawingState and one RoomManager.
RoomCallRec(method, rid, userId, ok) ==
  [type |-> method, socket |-> userId, data |-> [rid |-> rid], ok |-> ok]
\* What every direct call leaves alone.
RoomCallFrame ==
  /\ UNCHANGED <<maxHistorySize, conn, userColor, now, emitted, held, prev>>
  /\ UNCHANGED clientVars

\* drawingState.addAction(rid, action) with a fresh action object.
AddActionIn(rid, userId) ==
  /\ nextOid <= MaxActions
  /\ LET action == [oid |-> nextOid, path |-> StrokeData.path,
                    finalized |-> StrokeData.finalized,
                    userId |-> userId, timestamp |-> now]
     IN  drawingState' = addAction(drawingState, rid, action)
  /\ nextOid' = nextOid + 1
  /\ lastEvent' = RoomCallRec("addAction", rid, userId, TRUE)
  /\ RoomCallFrame
  /\ UNCHANGED roomManager

\* drawingState.undo(rid).
UndoIn(rid) ==
  /\ LET u == undo(drawingState, rid)
     IN  /\ drawingState' = u.rooms
         /\ lastEvent' = RoomCallRec("undo", rid, 0, u.ret)
  /\ RoomCallFrame
  /\ UNCHANGED <<roomManager, nextOid>>

\* drawingState.redo(rid).
RedoIn(rid) ==
  /\ LET r == redo(drawingState, rid)
     IN  /\ drawingState' = r.rooms
         /\ lastEvent' = RoomCallRec("redo", rid, 0, r.ret)
  /\ RoomCallFrame
  /\ UNCHANGED <<roomManager, nextOid>>

\* drawingState.clear(rid).
ClearIn(rid) ==
  /\ drawingState' = clear(drawingState, rid)
  /\ lastEvent' = RoomCallRec("clear", rid, 0, TRUE)
  /\ RoomCallFrame
  /\ UNCHANGED <<roomManager, nextOid>>

\* drawingState.getHistory(rid).
GetHistoryIn(rid) ==
  /\ drawingState' = getHistory(drawingState, rid).rooms
  /\ lastEvent' = RoomCallRec("getHistory", rid, 0, TRUE)
  /\ RoomCallFrame
  /\ UNCHANGED <<roomManager, nextOid>>

\* roomManager.addUser(rid, userId, color).
AddUserIn(rid, userId) ==
  /\ roomManager' = addUser(roomManager, rid, userId, "#aaaaaa", now)
  /\ lastEvent' = RoomCallRec("addUser", rid, userId, TRUE)
  /\ RoomCallFrame
  /\ UNCHANGED <<drawingState, nextOid>>

\* roomManager.removeUser(rid, userId).
RemoveUserIn(rid, userId) ==
  /\ roomManager' = removeUser(roomManager, rid, userId)
  /\ lastEvent' = RoomCallRec("removeUser", rid, userId, TRUE)
  /\ RoomCallFrame
  /\ UNCHANGED <<drawingState, nextOid>>

\* roomManager.getUsers(rid).
GetUsersIn(rid) ==
  /\ roomManager' = getUsers(roomManager, rid).rooms
  /\ lastEvent' = RoomCallRec("getUsers", rid, 0, TRUE)
  /\ RoomCallFrame
  /\ UNCHANGED <<drawingState, nextOid>>

\* roomManager.getUserCount(rid).
GetUserCountIn(rid) ==
  /\ roomManager' = getUserCount(roomManager, rid).rooms
  /\ lastEvent' = RoomCallRec("getUserCount", rid, 0, TRUE)
  /\ RoomCallFrame
  /\ UNCHANGED <<drawingState, nextOid>>

\* roomManager.hasUser(rid, userId).
HasUserIn(rid, userId) ==
  /\ LET h == hasUser(roomManager, rid, userId)
     IN  /\ roomManager' = h.rooms
         /\ lastEvent' = RoomCallRec("hasUser", rid, userId, h.ret)
  /\ RoomCallFrame
  /\ UNCHANGED <<drawingState, nextOid>>

NextTwoRooms ==
  \/ \E rid \in RoomIds : AddActionIn(rid, 1)
  \/ \E rid \in RoomIds : UndoIn(rid)
  \/ \E rid \in RoomIds : RedoIn(rid)
  \/ \E rid \in RoomIds : ClearIn(rid)
  \/ \E rid \in RoomIds : GetHistoryIn(rid)
  \/ \E rid \in RoomIds, u \in Sockets : AddUserIn(rid, u)
  \/ \E rid \in RoomIds, u \in Sockets : RemoveUserIn(rid, u)
  \/ \E rid \in RoomIds : GetUsersIn(rid)
  \/ \E rid \in RoomIds : GetUserCountIn(rid)
  \/ \E rid \in RoomIds, u \in Sockets : HasUserIn(rid, u)

SpecTwoRooms == Init /\ [][NextTwoRooms]_vars

\* ------------------------------------------- server and browser clients
\* The server handlers driven by the clients of src/client/main.js over
\* their socket.io connections: each direction of a connection delivers in
\* order; a client callback or a server handler runs when its message is
\* taken from the connection.
\* Largest number of messages waiting in one direction of one connection.
MaxInFlight == 1

\* The action object CanvasModule.stopDrawing returns for a stroke of at
\* least two points; it has no `finalized` field. `size` is the brush size,
\* client s drawing with size s.
MouseUpAction(s) ==
  [isNull |-> FALSE, path |-> PathArray(<<Point, Point2>>),
   finalized |-> FALSE, size |-> s]

ClientEvent(ev, data) == [event |-> ev, data |-> data]
Send(s, ev, data) ==
  toServer' = [toServer EXCEPT ![s] = Append(@, ClientEvent(ev, data))]
\* isConnected of the WebSocketModule, and room on the connection for one
\* more event.
CanSend(s) == conn[s] = "active" /\ Len(toServer[s]) < MaxInFlight
\* The DRAW_ACTION events on their way to the server.
DrawsInFlight ==
  LET n[k \in 0..NumSockets] ==
        IF k = 0 THEN 0
        ELSE n[k - 1]
               + Len(SelectSeq(toServer[k], LAMBDA m : m.event = "DRAW_ACTION"))
  IN  n[NumSockets]

\* What the emit calls of a handler put on the connection to socket p.
Deliveries(p, ems) ==
  LET mine == SelectSeq(ems, LAMBDA e : p \in e.audience)
  IN  [i \in 1..Len(mine) |->
         [event |-> mine[i].event, payload |-> mine[i].payload]]
\* The emit calls of the handler that has just run reach the connections;
\* a closed connection carries nothing.
Dispatch ==
  toClient' = [p \in Sockets |->
                 IF conn'[p] = "active"
                   THEN toClient[p] \o Deliveries(p, emitted')
                   ELSE <<>>]
\* Every connection has room for what a handler may emit.
RoomToEmit == \A p \in Sockets : Len(toClient[p]) < MaxInFlight

\* handleMouseUp: main.js 172-180.
HandleMouseUp(s) ==
  /\ CanSend(s)
  /\ nextOid + DrawsInFlight <= MaxActions
  /\ Send(s, "DRAW_ACTION", MouseUpAction(s))
  /\ clientState' = [clientState EXCEPT
                       ![s].history = Append(@, MouseUpAction(s))]
  /\ UNCHANGED <<maxHistorySize, drawingState, roomManager, conn, userColor,
                 now, nextOid, lastEvent, emitted, prev, held, toClient>>

\* handleUndo: main.js 201-205 (the button is disabled on an empty history).
HandleUndo(s) ==
  /\ CanSend(s)
  /\ Len(clientState[s].history) > 0
  /\ Send(s, "UNDO", NullData)
  /\ UNCHANGED <<maxHistorySize, drawingState, roomManager, conn, userColor,
                 now, nextOid, lastEvent, emitted, prev, held, clientState,
                 toClient>>

\* handleRedo: main.js 208-210, the redo button being enabled by canRedo
\* (updateUndoRedoButtons, 301-315).
HandleRedo(s) ==
  /\ CanSend(s)
  /\ clientState[s].canRedo
  /\ Send(s, "REDO", NullData)
  /\ UNCHANGED <<maxHistorySize, drawingState, roomManager, conn, userColor,
                 now, nextOid, lastEvent, emitted, prev, held, clientState,
                 toClient>>

\* handleClear: main.js 213-217, the user confirming.
HandleClear(s) ==
  /\ CanSend(s)
  /\ Send(s, "CLEAR_CANVAS", NullData)
  /\ UNCHANGED <<maxHistorySize, drawingState, roomManager, conn, userColor,
                 now, nextOid, lastEvent, emitted, prev, held, clientState,
                 toClient>>

\* The callbacks of setupWebSocketCallbacks (main.js 94-155) on `state`.
OnMessage(st, m) ==
  CASE m.event = "INIT_CANVAS" -> [st EXCEPT !.history = m.payload.history]
    [] m.event = "DRAW_ACTION" -> [st EXCEPT !.history = Append(@, m.payload)]
    [] m.event = "UNDO_ACTION" ->
         [history |-> m.payload.history, canRedo |-> TRUE]
    [] m.event = "REDO_ACTION" ->
         [history |-> m.payload.history, canRedo |-> FALSE]
    [] m.event = "CANVAS_CLEARED" -> [st EXCEPT !.history = <<>>]
    [] OTHER -> st

\* The client of socket s receives the next server message.
ClientReceive(s) ==
  /\ toClient[s] # <<>>
  /\ clientState' = [clientState EXCEPT ![s] = OnMessage(@, Head(toClient[s]))]
  /\ toClient' = [toClient EXCEPT ![s] = Tail(@)]
  /\ UNCHANGED <<maxHistorySize, drawingState, roomManager, conn, userColor,
                 now, nextOid, lastEvent, emitted, prev, held, toServer>>

\* A client connects: the connection handler runs for its socket.
SyncConnection(s, t) ==
  /\ RoomToEmit
  /\ Connection(s, "#aaaaaa", t)
  /\ Dispatch
  /\ UNCHANGED <<held, clientState, toServer>>

\* The next event of socket s reaches its handler.
Arrives(s, ev) ==
  /\ conn[s] = "active"
  /\ toServer[s] # <<>>
  /\ Head(toServer[s]).event = ev
  /\ RoomToEmit
Handled(s) ==
  /\ toServer' = [toServer EXCEPT ![s] = Tail(@)]
  /\ Dispatch
  /\ UNCHANGED <<held, clientState>>

SyncDraw(s, t) ==
  Arrives(s, "DRAW_ACTION")
    /\ DRAW_ACTION(s, Head(toServer[s]).data, t) /\ Handled(s)
SyncUndo(s) == Arrives(s, "UNDO") /\ UNDO(s) /\ Handled(s)
SyncRedo(s) == Arrives(s, "REDO") /\ REDO(s) /\ Handled(s)
SyncClear(s) == Arrives(s, "CLEAR_CANVAS") /\ CLEAR_CANVAS(s) /\ Handled(s)

\* The connection of socket s closes: what was on it is lost, and the
\* disconnect handler runs.
SyncDisconnect(s) ==
  /\ RoomToEmit
  /\ Disconnect(s)
  /\ toServer' = [toServer EXCEPT ![s] = <<>>]
  /\ Dispatch
  /\ UNCHANGED <<held, clientState>>

NextSync ==
  \/ \E s \in Sockets, t \in 0..MaxClock : SyncConnection(s, t)
  \/ \E s \in Sockets : HandleMouseUp(s)
  \/ \E s \in Sockets : HandleUndo(s)
  \/ \E s \in Sockets : HandleRedo(s)
  \/ \E s \in Sockets : HandleClear(s)
  \/ \E s \in Sockets, t \in 0..MaxClock : SyncDraw(s, t)
  \/ \E s \in Sockets : SyncUndo(s)
  \/ \E s \in Sockets : SyncRedo(s)
  \/ \E s \in Sockets : SyncClear(s)
  \/ \E s \in Sockets : ClientReceive(s)
  \/ \E s \in Sockets : SyncDisconnect(s)

SpecSync == InitDeep /\ [][NextSync]_vars

\* ================================================================ claims
\* Vocabulary of the claims, in terms of the last handler run.
AcceptedDraw(ev) == ev.type = "DRAW_ACTION" /\ ev.ok
\* The action object the DRAW_ACTION handler built for the last event.
Stamped ==
  [oid |-> nextOid - 1, path |-> lastEvent.data.path,
   finalized |-> lastEvent.data.finalized,
   userId |-> lastEvent.socket, timestamp |-> now]
\* Socket p was sent event ev by the last handler.
Received(p, ev) ==
  \E i \in 1..Len(emitted) : emitted[i].event = ev /\ p \in emitted[i].audience
\* Socket p was sent event ev with payload pl by the last handler.
ReceivedWith(p, ev, pl) ==
  \E i \in 1..Len(emitted) :
    emitted[i].event = ev /\ p \in emitted[i].audience /\ emitted[i].payload = pl
\* Nothing was sent to anybody.
NothingSent == \A i \in 1..Len(emitted) : emitted[i].audience = {}
LogUnchanged == History = prev.history /\ UndoStack = prev.undoneActions
\* The last n elements of a sequence (all of it if it is shorter).
LastN(q, n) == IF Len(q) <= n THEN q ELSE SubSeq(q, Len(q) - n + 1, Len(q))
\* A path that is a list of at least one {x, y} pair.
IsPointList(p) ==
  /\ p.kind = "array"
  /\ Len(p.elems) >= 1
  /\ \A i \in 1..Len(p.elems) : IsPoint(p.elems[i])

\* C1: for a room whose history H has length >= 1, undo() followed
\* immediately by redo() leaves history equal to H and undoStack as it was
\* before the undo.
C1_UndoRedoInverse ==
  [][ (lastEvent.type = "UNDO" /\ lastEvent.ok /\ lastEvent'.type = "REDO")
        => (/\ lastEvent'.ok
            /\ History' = prev.history
            /\ UndoStack' = prev.undoneActions) ]_vars
\* A redo has just put the most recently undone action back as the last
\* element of the history, with an older action below it.
C1_Witness ==
  /\ lastEvent.type = "REDO" /\ lastEvent.ok
  /\ Len(History) >= 2
  /\ prev.undoneActions = Append(UndoStack, Last(History))

\* C2: after a successful undo(), append(newAction) leaves undoStack empty,
\* and a redo() issued right after that append reports no-op and leaves
\* history unchanged.
C2_AppendInvalidatesRedo ==
  [][ /\ (AcceptedDraw(lastEvent') /\ UndoStack # <<>>) => UndoStack' = <<>>
      /\ (AcceptedDraw(lastEvent) /\ prev.undoneActions # <<>>
            /\ lastEvent'.type = "REDO")
           => (~lastEvent'.ok /\ History' = History /\ UndoStack' = <<>>) ]_vars
\* An append has just run on a room whose undo stack held undone actions.
C2_Witness ==
  /\ AcceptedDraw(lastEvent)
  /\ prev.undoneActions # <<>>
  /\ UndoStack = <<>>

\* C3: history.length never exceeds the configured maximum, and an append
\* keeps the most recently appended actions in append order, evicting the
\* oldest first: the history after an append is the last MAX_HISTORY_SIZE
\* elements of the old history followed by the new action.
C3_HistoryBound ==
  /\ Len(History) <= MAX_HISTORY_SIZE
  /\ AcceptedDraw(lastEvent)
       => History = LastN(Append(prev.history, Stamped), MAX_HISTORY_SIZE)
\* More actions than the maximum were appended in a row from the start: the
\* first one is gone and the last MAX_HISTORY_SIZE remain, in order.
C3_Witness ==
  /\ AcceptedDraw(lastEvent)
  /\ Len(prev.history) = MAX_HISTORY_SIZE
  /\ Len(History) = MAX_HISTORY_SIZE
  /\ \A i \in 1..MAX_HISTORY_SIZE : History[i].oid = i + 1

\* C4: a valid stroke event without the finalized flag is delivered to every
\* other participant and not to the sender, and leaves history and undoStack
\* unchanged.
C4_NonFinalizedNotStored ==
  (lastEvent.type = "DRAW_ACTION" /\ ~lastEvent.data.isNull
     /\ IsPointList(lastEvent.data.path) /\ ~lastEvent.data.finalized)
    => /\ \A p \in InRoom \ {lastEvent.socket} : Received(p, "DRAW_ACTION")
       /\ ~Received(lastEvent.socket, "DRAW_ACTION")
       /\ LogUnchanged

\* C5: a valid stroke event with finalized = true makes history one longer,
\* with the stamped action last, and is delivered to every participant of
\* the room including the sender.
C5_FinalizedToAll ==
  (lastEvent.type = "DRAW_ACTION" /\ ~lastEvent.data.isNull
     /\ IsPointList(lastEvent.data.path) /\ lastEvent.data.finalized)
    => /\ Len(History) = Len(prev.history) + 1
       /\ Last(History) = Stamped
       /\ \A p \in InRoom : Received(p, "DRAW_ACTION")

\* C6: a stroke event whose payload is missing, has no path, or has a path
\* that is not a list is dropped: nothing is sent to anybody and history and
\* undoStack are as before.
C6_MalformedDropped ==
  (lastEvent.type = "DRAW_ACTION"
     /\ (lastEvent.data.isNull \/ lastEvent.data.path.kind # "array"))
    => (NothingSent /\ emitted = <<>> /\ LogUnchanged)
\* A stroke event whose path is not an array was handled on a room with a
\* non-empty history and another participant to broadcast to.
C6_Witness ==
  /\ lastEvent.type = "DRAW_ACTION"
  /\ lastEvent.data = StringPathData
  /\ History # <<>>
  /\ InRoom \ {lastEvent.socket} # {}

\* C7: a stroke event whose path is an empty list, or a list with an element
\* that is not an {x, y} pair, is dropped: nothing is appended, undoStack is
\* unchanged and nothing is broadcast.
C7_NonPointListDropped ==
  (lastEvent.type = "DRAW_ACTION" /\ ~lastEvent.data.isNull
     /\ lastEvent.data.path.kind = "array"
     /\ ~IsPointList(lastEvent.data.path))
    => (NothingSent /\ LogUnchanged)

\* C8: undo() on a non-empty history removes exactly its last element,
\* appends it as the last element of undoStack, leaves the rest of both
\* sequences unchanged and returns success; on an empty history it returns
\* failure and changes neither sequence.
C8_Undo ==
  lastEvent.type = "UNDO"
    => IF prev.history # <<>>
         THEN /\ lastEvent.ok
              /\ History = Front(prev.history)
              /\ UndoStack = Append(prev.undoneActions, Last(prev.history))
         ELSE ~lastEvent.ok /\ LogUnchanged
\* An undo has just succeeded, leaving elements below it in the history.
C8_Witness ==
  /\ lastEvent.type = "UNDO" /\ lastEvent.ok
  /\ History # <<>>
  /\ UndoStack # <<>>

\* C9: redo() on a non-empty undoStack removes exactly its last element,
\* appends it as the last element of history and returns success; on an
\* empty undoStack it returns failure and changes neither sequence.
C9_Redo ==
  lastEvent.type = "REDO"
    => IF prev.undoneActions # <<>>
         THEN /\ lastEvent.ok
              /\ UndoStack = Front(prev.undoneActions)
              /\ History = Append(prev.history, Last(prev.undoneActions))
         ELSE ~lastEvent.ok /\ LogUnchanged
\* A redo has just succeeded while another undone action stays on the stack.
C9_Witness ==
  /\ lastEvent.type = "REDO" /\ lastEvent.ok
  /\ UndoStack # <<>>
  /\ History # <<>>

\* C10: on an undo event, if the undo succeeds an undo notification whose
\* payload is the room's history after the undo is sent to every participant
\* including the sender; if history was empty nothing is sent to anybody.
C10_UndoBroadcast ==
  lastEvent.type = "UNDO"
    => IF prev.history # <<>>
         THEN /\ lastEvent.socket \in InRoom
              /\ \A p \in InRoom :
                   ReceivedWith(p, "UNDO_ACTION", [history |-> History])
              /\ Len(emitted) = 1
         ELSE emitted = <<>>
\* An undo by one of two participants has just left a non-empty history.
C10_Witness ==
  /\ lastEvent.type = "UNDO" /\ lastEvent.ok
  /\ History # <<>>
  /\ Cardinality(InRoom) >= 2

\* C11: on a redo event, if the redo succeeds a redo notification whose
\* payload is the room's history after the redo is sent to every participant
\* including the sender; if undoStack was empty nothing is sent and history
\* and undoStack do not change.
C11_RedoBroadcast ==
  lastEvent.type = "REDO"
    => IF prev.undoneActions # <<>>
         THEN /\ lastEvent.socket \in InRoom
              /\ \A p \in InRoom :
                   ReceivedWith(p, "REDO_ACTION", [history |-> History])
              /\ Len(emitted) = 1
              /\ History # prev.history
         ELSE emitted = <<>> /\ LogUnchanged
\* A redo by one of two participants has just restored an action while
\* another undone action stays on the stack.
C11_Witness ==
  /\ lastEvent.type = "REDO" /\ lastEvent.ok
  /\ UndoStack # <<>>
  /\ Cardinality(InRoom) >= 2

\* C12: on a clear event from any participant, history and undoStack both
\* become empty and a canvas-cleared notification is sent to every
\* participant including the sender, also when both were already empty.
C12_ClearBroadcast ==
  lastEvent.type = "CLEAR_CANVAS"
    => /\ History = <<>>
       /\ UndoStack = <<>>
       /\ lastEvent.socket \in InRoom
       /\ \A p \in InRoom : Received(p, "CANVAS_CLEARED")
       /\ Len(emitted) = 1
\* A clear by one of two participants has just emptied a room that had both
\* committed and undone actions.
C12_Witness ==
  /\ lastEvent.type = "CLEAR_CANVAS"
  /\ prev.history # <<>>
  /\ prev.undoneActions # <<>>
  /\ Cardinality(InRoom) >= 2

\* C13: undo is global per room: an undo event from any participant removes
\* the last action of the history whoever its author is, also when the
\* author is another participant or has disconnected.
C13_GlobalUndo ==
  \A author \in Sockets :
    (lastEvent.type = "UNDO" /\ prev.history # <<>>
       /\ Last(prev.history).userId = author)
      => /\ lastEvent.ok
         /\ History = Front(prev.history)
         /\ UndoStack # <<>>
         /\ Last(UndoStack) = Last(prev.history)
\* An undo has just removed an action whose author is another connection,
\* one that has disconnected since.
C13_Witness ==
  /\ lastEvent.type = "UNDO" /\ lastEvent.ok
  /\ UndoStack # <<>>
  /\ Last(UndoStack).userId # lastEvent.socket
  /\ conn[Last(UndoStack).userId] = "disconnected"

\* The room as two undo events leave it when they start from a history of
\* three actions [X, Y, Z]: the second undo has just run on [X, Y] with Z
\* already undone.
AfterTwoUndos ==
  /\ lastEvent.type = "UNDO" /\ lastEvent.ok
  /\ Len(prev.history) = 2
  /\ Len(prev.undoneActions) = 1

\* C14: if history is [X, Y, Z] and two undo events, from the same or from
\* different connections, are processed with no other event between them,
\* then history is [X]: exactly the last two actions are removed.
C14_TwoUndos ==
  [][ (lastEvent.type = "UNDO" /\ lastEvent.ok /\ Len(prev.history) = 3
         /\ lastEvent'.type = "UNDO")
        => (/\ lastEvent'.ok
            /\ History' = << prev.history[1] >>
            /\ Len(UndoStack') = Len(prev.undoneActions) + 2) ]_vars
\* The second of two undos has just left the oldest of three committed
\* actions in the history, the two newer ones being on the undo stack.
C14_Witness ==
  /\ AfterTwoUndos
  /\ Len(History) = 1
  /\ UndoStack = << prev.undoneActions[1], prev.history[2] >>
  /\ History[1].oid < UndoStack[2].oid
  /\ UndoStack[2].oid < UndoStack[1].oid

\* C15 as stated: after [X, Y, Z] has been reduced to [X] by two undos, Z is
\* below Y in the undo stack and the next redo() restores Z first.
C15_RedoRestoresZFirst ==
  [][ (AfterTwoUndos /\ lastEvent'.type = "REDO")
        => (/\ UndoStack[1] = prev.undoneActions[1]
            /\ UndoStack[2] = prev.history[2]
            /\ Last(History') = prev.undoneActions[1]) ]_vars

\* C15 amended: after [X, Y, Z] has been reduced to [X] by two undos,
\* undoneActions is [Z, Y] (Z below Y, Y the most recently undone last); the
\* next redo() restores Y, giving [X, Y], and the redo after it restores Z,
\* giving [X, Y, Z].
C15_RedoLifo ==
  [][ /\ (AfterTwoUndos /\ lastEvent'.type = "REDO")
           => (/\ UndoStack = << prev.undoneActions[1], prev.history[2] >>
               /\ lastEvent'.ok
               /\ History' = prev.history
               /\ UndoStack' = prev.undoneActions)
      /\ (lastEvent.type = "REDO" /\ lastEvent.ok
            /\ Len(prev.history) = 1 /\ Len(prev.undoneActions) = 2
            /\ lastEvent'.type = "REDO")
           => (/\ lastEvent'.ok
               /\ History' = prev.history
                               \o << prev.undoneActions[2],
                                     prev.undoneActions[1] >>
               /\ UndoStack' = <<>>) ]_vars
\* Two redos have just put back, in commit order, the two actions that two
\* undos had removed from a history of three.
C15_Witness ==
  /\ lastEvent.type = "REDO" /\ lastEvent.ok
  /\ Len(History) = 3
  /\ UndoStack = <<>>
  /\ Len(prev.undoneActions) = 1
  /\ \A i \in 1..3 : History[i].oid = i

\* C16: join is idempotent: a second addUser(room, id, color) with an id
\* that is already in the room, with the same or a different color, leaves
\* exactly one entry for id in the room's list, with the color and joinedAt
\* of the first call.
C16_JoinIdempotent ==
  lastEvent.type = "addUser"
    => LET rid == lastEvent.data.rid
           id == lastEvent.socket
           before == IF rid \in DOMAIN prev.rooms THEN prev.rooms[rid] ELSE <<>>
           list == getUsers(roomManager, rid).ret
           entries == {i \in 1..Len(list) : list[i].userId = id}
       IN  /\ Cardinality(entries) = 1
           /\ (\E j \in 1..Len(before) : before[j].userId = id)
                => (/\ list = before
                    /\ \A i \in entries :
                         \E j \in 1..Len(before) : before[j] = list[i])
\* addUser has just been called for an id that was already in the room, with
\* another color and at a later clock reading than the first call.
C16_Witness ==
  /\ lastEvent.type = "addUser"
  /\ lastEvent.data.rid \in DOMAIN prev.rooms
  /\ \E j \in 1..Len(prev.rooms[lastEvent.data.rid]) :
       LET u == prev.rooms[lastEvent.data.rid][j]
       IN  /\ u.userId = lastEvent.socket
           /\ u.color # lastEvent.data.color
           /\ u.joinedAt # lastEvent.data.joinedAt

\* C17: after the last participant of a room leaves, the room entry is
\* deleted from the RoomManager, count(room) is 0, contains(room, id) is
\* false and list(room) is empty, and none of these queries re-creates the
\* room entry.
C17_EmptyRoomReclaimed ==
  (lastEvent.type = "disconnect" /\ InRoom = {})
    => /\ roomId \notin DOMAIN roomManager
       /\ getUserCount(roomManager, roomId) = [rooms |-> roomManager, ret |-> 0]
       /\ \A id \in Sockets :
            hasUser(roomManager, roomId, id)
              = [rooms |-> roomManager, ret |-> FALSE]
       /\ getUsers(roomManager, roomId) = [rooms |-> roomManager, ret |-> <<>>]
\* The last of two participants has just disconnected.
C17_Witness ==
  /\ lastEvent.type = "disconnect"
  /\ InRoom = {}
  /\ \A s \in Sockets : conn[s] = "disconnected"

\* C18: on connect the new connection is first added to the RoomManager and
\* then receives an INIT_CANVAS message, sent to it alone, with the room's
\* history as of that moment, a participant list that includes the new
\* connection, and the connection's own id and color.
C18_InitToNewConnection ==
  lastEvent.type = "connection"
    => LET s == lastEvent.socket
       IN  /\ Len(emitted) >= 1
           /\ emitted[1].event = "INIT_CANVAS"
           /\ emitted[1].audience = {s}
           /\ \A p \in Sockets \ {s} : ~Received(p, "INIT_CANVAS")
           /\ emitted[1].payload.history = History
           /\ History = prev.history
           /\ emitted[1].payload.users = getUsers(roomManager, roomId).ret
           /\ \E i \in 1..Len(emitted[1].payload.users) :
                emitted[1].payload.users[i].userId = s
           /\ emitted[1].payload.userId = s
           /\ emitted[1].payload.userColor = userColor[s]
\* A connection has just joined a room that has another participant and a
\* non-empty history.
C18_Witness ==
  /\ lastEvent.type = "connection"
  /\ History # <<>>
  /\ InRoom \ {lastEvent.socket} # {}

\* C19: on connect a USER_JOINED notification with the new connection's id,
\* color and the updated participant list is delivered to every participant
\* already in the room and not to the new connection.
C19_JoinedToOthers ==
  lastEvent.type = "connection"
    => LET s == lastEvent.socket
       IN  /\ \A p \in InRoom \ {s} :
                ReceivedWith(p, "USER_JOINED",
                             [userId |-> s, color |-> userColor[s],
                              users |-> getUsers(roomManager, roomId).ret])
           /\ ~Received(s, "USER_JOINED")
           /\ hasUser(roomManager, roomId, s).ret
\* A connection has just joined a room in which another participant, with
\* another color, was present.
C19_Witness ==
  /\ lastEvent.type = "connection"
  /\ \E p \in InRoom \ {lastEvent.socket} :
       userColor[p] # userColor[lastEvent.socket]

\* C20: on disconnect the connection is removed from the participant list,
\* every remaining participant receives a USER_LEFT notification whose list
\* no longer contains the leaver, and history and undoStack are as before.
C20_Disconnect ==
  lastEvent.type = "disconnect"
    => LET s == lastEvent.socket
           list == getUsers(roomManager, roomId).ret
       IN  /\ ~hasUser(roomManager, roomId, s).ret
           /\ \A i \in 1..Len(list) : list[i].userId # s
           /\ \A p \in InRoom :
                ReceivedWith(p, "USER_LEFT", [userId |-> s, users |-> list])
           /\ ~Received(s, "USER_LEFT")
           /\ LogUnchanged
\* One of two participants has just disconnected from a room that has both
\* committed and undone actions.
C20_Witness ==
  /\ lastEvent.type = "disconnect"
  /\ InRoom # {}
  /\ History # <<>>
  /\ UndoStack # <<>>

\* No client event and no server message is on its way.
Quiescent == \A s \in Sockets : toServer[s] = <<>> /\ toClient[s] = <<>>
\* What a client drew, whichever copy of the action it is read from: the
\* fields of the action other than the server's userId and timestamp.
StrokeOf(a) ==
  [f \in DOMAIN a \ {"isNull", "oid", "userId", "timestamp"} |-> a[f]]
Strokes(h) == [i \in 1..Len(h) |-> StrokeOf(h[i])]

\* C21: convergence: whenever no client event and no server message is in
\* flight, the local history of every connected client holds the same
\* strokes in the same order as the server's history of the room.
C21_Convergence ==
  Quiescent
    => \A s \in InRoom : Strokes(clientState[s].history) = Strokes(History)

\* C22: getHistory does not expose a mutable alias: a history value it
\* returned is not changed by any later addAction, undo, redo or clear on
\* the room, it still has the elements it had when it was returned.
C22_SnapshotNotAliased ==
  held.kind = "history" => held.cur = held.at

\* C23: getUsers does not expose a mutable alias: a participant list it
\* returned is not changed by any later addUser or removeUser on the room.
C23_ListNotAliased ==
  held.kind = "users" => held.cur = held.at

\* The elements of a sequence.
Range(q) == {q[i] : i \in 1..Len(q)}

C25_Disjoint ==
  LET all == History \o UndoStack
  IN  \A i, j \in 1..Len(all) : all[i].oid = all[j].oid => i = j
\* A redo has just moved one of two undone actions back: history and
\* undoStack both hold actions.
C25_Witness ==
  /\ lastEvent.type = "REDO" /\ lastEvent.ok
  /\ History # <<>>
  /\ UndoStack # <<>>

\* A cursor payload with numeric x and y.
WellFormedCursor(d) ==
  ~d.isNull /\ d.x.kind = "number" /\ d.y.kind = "number"

\* C26: a cursor-position event is relayed to every other participant and
\* not to the sender, tagged with the sender's connection id and assigned
\* color, and it leaves history, undoStack and the participant list
\* unchanged.
C26_CursorRelay ==
  [][ (lastEvent'.type = "CURSOR_MOVE" /\ WellFormedCursor(lastEvent'.data))
        => LET s == lastEvent'.socket
           IN  /\ \A p \in InRoom \ {s} :
                    \E i \in 1..Len(emitted') :
                      /\ emitted'[i].event = "CURSOR_UPDATE"
                      /\ p \in emitted'[i].audience
                      /\ emitted'[i].payload
                           = [userId |-> s, x |-> lastEvent'.data.x,
                              y |-> lastEvent'.data.y, color |-> userColor[s]]
               /\ \A i \in 1..Len(emitted') : s \notin emitted'[i].audience
               /\ drawingState' = drawingState
               /\ roomManager' = roomManager ]_vars
\* A cursor position has just been relayed in a room that has another
\* participant, committed actions and undone actions.
C26_Witness ==
  /\ lastEvent.type = "CURSOR_MOVE"
  /\ WellFormedCursor(lastEvent.data)
  /\ InRoom \ {lastEvent.socket} # {}
  /\ \A p \in InRoom \ {lastEvent.socket} : Received(p, "CURSOR_UPDATE")
  /\ History # <<>>
  /\ UndoStack # <<>>

\* C27: a malformed cursor event (payload missing, or x or y missing or not
\* numeric) is dropped: no cursor update is delivered to any participant.
C27_MalformedCursorDropped ==
  (lastEvent.type = "CURSOR_MOVE" /\ ~WellFormedCursor(lastEvent.data))
    => \A p \in Sockets : ~Received(p, "CURSOR_UPDATE")

\* The last handler run ended in its catch block: a call of its try block
\* raised, or (CURSOR_MOVE) the payload it reads from was missing.
Faulted(ev) ==
  \/ "threw" \in DOMAIN ev
  \/ ev.type = "CURSOR_MOVE" /\ ev.data.isNull

\* C28: if handling an event raises an exception at any step of its handler,
\* also after the DrawingState call and before or during the broadcast, the
\* fault is caught, the connection stays active, and history, undoStack and
\* the participant list of the room are as before the event.
C28_FaultLeavesStateAsBefore ==
  [][ Faulted(lastEvent')
        => /\ conn'[lastEvent'.socket] = "active"
           /\ History' = History
           /\ UndoStack' = UndoStack
           /\ roomManager' = roomManager ]_vars

\* The empty room has just lost its state: history and undoStack are gone.
RoomStateReclaimed == History = <<>> /\ UndoStack = <<>>

\* C29: when the last participant leaves a room, the room's drawing state
\* is cleaned up too: history and undone actions are removed, and a
\* connection that joins afterwards gets an empty history in INIT_CANVAS.
C29_EmptyRoomStateCleaned ==
  /\ (lastEvent.type = "disconnect" /\ InRoom = {}) => RoomStateReclaimed
  /\ (lastEvent.type = "connection" /\ InRoom = {lastEvent.socket})
       => emitted[1].payload.history = <<>>

\* C30: getUsers returns a room's participants in the order in which they
\* joined, also after others have left in between: a join of a new id puts
\* its entry last, a leave takes the leaver's entry out and keeps the
\* others in their order, and a list that is read is the list as it
\* stands; for a room nobody ever joined the list is empty and the count 0.
C30_ListInJoinOrder ==
  [][ LET rid == lastEvent'.data.rid
          id == lastEvent'.socket
          before == getUsers(roomManager, rid).ret
          after == getUsers(roomManager', rid).ret
      IN  /\ lastEvent'.type = "addUser"
               => IF \E i \in 1..Len(before) : before[i].userId = id
                    THEN after = before
                    ELSE after = Append(before,
                                        [userId |-> id,
                                         color |-> lastEvent'.data.color,
                                         joinedAt |-> lastEvent'.data.joinedAt])
          /\ lastEvent'.type = "removeUser"
               => after = SelectSeq(before, LAMBDA u : u.userId # id)
          /\ lastEvent'.type = "getUsers"
               => /\ held'.at = before
                  /\ roomManager' = roomManager
          /\ (lastEvent'.type = "getUsers" /\ rid # roomId)
               => /\ held'.at = <<>>
                  /\ getUserCount(roomManager', rid).ret = 0 ]_vars
\* The second of three participants has just left: the first and the third
\* remain, in the order in which they joined.
C30_Witness ==
  /\ lastEvent.type = "removeUser"
  /\ roomId \in DOMAIN prev.rooms
  /\ Len(prev.rooms[roomId]) = 3
  /\ prev.rooms[roomId][2].userId = lastEvent.socket
  /\ getUsers(roomManager, roomId).ret
       = << prev.rooms[roomId][1], prev.rooms[roomId][3] >>

\* The oids of a sequence of actions: the coordinator hands them out in the
\* order in which it processes the committing stroke events.
Oids(q) == [i \in 1..Len(q) |-> q[i].oid]
Increasing(q) == \A i, j \in 1..Len(q) : i < j => q[i] < q[j]
Reverse(q) == [i \in 1..Len(q) |-> q[Len(q) + 1 - i]]

\* C31: every action in the committed history has a path of at least two
\* points; a stroke event whose path has no point or one point adds nothing
\* to the history.
C31_PathsHaveTwoPoints ==
  /\ \A i \in 1..Len(History) : Len(History[i].path.elems) >= 2
  /\ (lastEvent.type = "DRAW_ACTION" /\ ~lastEvent.data.isNull
        /\ lastEvent.data.path.kind = "array"
        /\ Len(lastEvent.data.path.elems) < 2)
       => History = prev.history

\* C32: the history is in the order in which the coordinator processed the
\* stroke events that committed its actions: of two actions in the history
\* the one processed earlier comes first, whatever timestamp the clients
\* put in their payloads and whatever undos and redos happened in between.
C32_HistoryInProcessingOrder == Increasing(Oids(History))
\* Three strokes are in the history again after an undo and a redo, the
\* client of one of them having sent a timestamp of its own, and they stand
\* in the order in which they were processed.
C32_Witness ==
  /\ lastEvent.type = "REDO" /\ lastEvent.ok
  /\ Len(History) = 3
  /\ Oids(History) = <<1, 2, 3>>
  /\ \E i \in 1..3 : History[i].userId # History[1].userId

\* C33: a connection that sends a non-finalized stroke segment, its first
\* stroke event, and then disconnects without a finalized stroke leaves the
\* room's history and undoStack as they were before the segment.
C33_NoPartialEntryLeft ==
  [][ (/\ AcceptedDraw(lastEvent)
       /\ ~lastEvent.data.finalized
       /\ \A a \in Range(prev.history) \cup Range(prev.undoneActions) :
             a.userId # lastEvent.socket
       /\ lastEvent'.type = "disconnect"
       /\ lastEvent'.socket = lastEvent.socket)
        => (/\ History' = prev.history
            /\ UndoStack' = prev.undoneActions) ]_vars

\* The history, undo stack and participant list of room r in a DrawingState
\* map and a RoomManager map (empty for a room the map does not hold).
LogOf(rooms, r) ==
  IF r \in DOMAIN rooms THEN rooms[r]
                        ELSE [history |-> <<>>, undoneActions |-> <<>>]
ListOf(rooms, r) == IF r \in DOMAIN rooms THEN rooms[r] ELSE <<>>

\* C34: room isolation: a DrawingState call (addAction, undo, redo, clear,
\* getHistory) or RoomManager call (addUser, removeUser, getUsers,
\* getUserCount, hasUser) on one room leaves the history, the undo stack and
\* the participant list of every other room unchanged.
C34_RoomIsolation ==
  [][ \A r \in RoomIds \ {lastEvent'.data.rid} :
         /\ LogOf(drawingState', r) = LogOf(drawingState, r)
         /\ ListOf(roomManager', r) = ListOf(roomManager, r) ]_vars
\* An action of one room was just undone while the other room holds a
\* history, an undo stack and a participant.
C34_Witness ==
  /\ lastEvent.type = "undo" /\ lastEvent.ok
  /\ lastEvent.data.rid = roomId
  /\ LogOf(drawingState, roomId).undoneActions # <<>>
  /\ LogOf(drawingState, "lobby").history # <<>>
  /\ LogOf(drawingState, "lobby").undoneActions # <<>>
  /\ ListOf(roomManager, "lobby") # <<>>

\* C35: with the client that streams every pointer-move segment as a stroke
\* event and then sends the whole stroke with finalized = true, one undo
\* event after the stroke is complete removes the whole stroke: the history
\* that the undo broadcasts holds neither the full stroke nor a segment of it.
C35_UndoRemovesWholeStroke ==
  [][ (/\ AcceptedDraw(lastEvent)
       /\ lastEvent.data = StrokeData
       /\ prev.history # <<>>
       /\ Last(prev.history).userId = lastEvent.socket
       /\ ~Last(prev.history).finalized
       /\ IsPointList(Last(prev.history).path)
       /\ lastEvent'.type = "UNDO")
        => (/\ lastEvent'.ok
            /\ Len(emitted') = 1
            /\ emitted'[1].event = "UNDO_ACTION"
            /\ \A a \in Range(emitted'[1].payload.history) :
                  a.oid \notin {Last(prev.history).oid, Last(History).oid}) ]_vars

\* C36: in every reachable state history.length + undoStack.length is at
\* most the configured maximum, so a redo never takes the history past the
\* bound and a redo never evicts: the history after a successful redo is
\* the old history followed by the redone action.
C36_LogWithinBound ==
  /\ Len(History) + Len(UndoStack) <= maxHistorySize
  /\ (lastEvent.type = "REDO" /\ lastEvent.ok)
       => /\ Len(History) = Len(prev.history) + 1
          /\ SubSeq(History, 1, Len(prev.history)) = prev.history
\* A redo has just filled the history up to the maximum, after an append
\* had evicted the oldest action.
C36_Witness ==
  /\ lastEvent.type = "REDO" /\ lastEvent.ok
  /\ Len(History) = maxHistorySize
  /\ History[1].oid > 1

\* C37: in every reachable state every action in undoStack was committed
\* after every action in history, and undoStack read from its last element
\* to its first is in commit order: history followed by the reversed
\* undoStack is ordered by commit.
C37_LogInCommitOrder == Increasing(Oids(History \o Reverse(UndoStack)))
\* Two undos in a row have left one action in the history and two on the
\* undo stack, the one undone last on top.
C37_Witness ==
  /\ lastEvent.type = "UNDO" /\ lastEvent.ok
  /\ Len(History) = 1
  /\ Len(UndoStack) = 2
  /\ UndoStack[2].oid < UndoStack[1].oid

\* The participant list of the default room names exactly the active
\* connections, each once.
ListIsInRoom ==
  LET l == ListOf(roomManager, roomId)
  IN  /\ {l[i].userId : i \in 1..Len(l)} = InRoom
      /\ Len(l) = Cardinality(InRoom)

\* C38: in every reachable state the participant list holds exactly the
\* connections that have connected and not yet disconnected, each once;
\* a disconnected connection stays disconnected and out of the list, and
\* every event that changes history or undoStack comes from a connection
\* that is not disconnected.
C38_ListIsActiveConnections ==
  [][ /\ ListIsInRoom'
      /\ \A s \in Sockets :
            conn[s] = "disconnected"
              => /\ conn'[s] = "disconnected"
                 /\ ~hasUser(roomManager', roomId, s).ret
      /\ (History' # History \/ UndoStack' # UndoStack)
            => conn[lastEvent'.socket] = "active" ]_vars
\* One of two participants has left, and the other one then committed a
\* stroke: the list holds the other one only.
C38_Witness ==
  /\ AcceptedDraw(lastEvent)
  /\ \E s \in Sockets : conn[s] = "disconnected"
  /\ InRoom = {lastEvent.socket}
  /\ ListIsInRoom

\* C39: whenever no message is in flight, the canRedo flag of every
\* connected client is true exactly when the undo stack of the room is not
\* empty, after any stroke, undo, redo and clear events of any clients.
C39_CanRedoMatchesUndoStack ==
  Quiescent
    => \A s \in InRoom : clientState[s].canRedo <=> (UndoStack # <<>>)

====
